---------------------------- MODULE Spec2Model ----------------------------
(***************************************************************************)
(* A model of the test-rust vulnerable application                         *)
(* (test_codebase/vulnerable-apps/test-rust).  Each public function of the *)
(* application is a small state machine: it is called with an argument,    *)
(* performs its underlying operations (process spawn, file read, JSON      *)
(* parse, allocation, raw memory access) whose results the environment     *)
(* chooses, and ends by returning, panicking, or faulting.                 *)
(*                                                                         *)
(* Strings that the code inspects or converts are sequences of bytes;      *)
(* strings it only passes along are TLA+ strings.                          *)
(*                                                                         *)
(* Undefined behaviour (a write past an allocation, a deallocation or read *)
(* through a null pointer, a read of freed memory) is a choice among the   *)
(* outcomes a build can produce: the access lands / yields some byte, or   *)
(* the process faults.                                                     *)
(***************************************************************************)
EXTENDS Integers, Sequences, FiniteSets, TLC

VARIABLES
    fn,       \* the function being executed, "none" before the call
    pc,       \* position inside that function
    arg,      \* its argument
    opres,    \* result of its fallible underlying operation
    outcome,  \* how the call ended (or "running")
    spawns,   \* processes whose spawn was requested, in order
    printed,  \* lines written with println!, in order
    ptr,      \* the raw pointer held by the memory examples
    block,    \* state of the heap block behind ptr
    mem,      \* bytes written through the slice: offset -> byte
    i,        \* loop index of memory_corruption_example
    events    \* allocator calls and raw reads issued, in order

vars == <<fn, pc, arg, opres, outcome, spawns, printed, ptr, block, mem, i, events>>

----------------------------------------------------------------------------
(* Bounds of the model *)

\* longest captured stdout, in bytes
MaxOut == 3
\* longest "command" value / user_input, in bytes
MaxCmdLen == 1
\* largest size passed to memory_corruption_example; 2 * MaxSize exceeds 256
\* so that the cast `i as u8` wraps
MaxSize == 130

(* Program constants *)

\* u8 has 256 values (`i as u8`, ptr::read::<u8>)
U8Mod == 256
\* Layout::from_size_align(1024, 8) in use_after_free_example
UafSize == 1024
\* slice length factor: from_raw_parts_mut(ptr, size * 2)
SliceFactor == 2

----------------------------------------------------------------------------
(* Byte strings *)

RECURSIVE SeqsUpTo(_, _)
SeqsUpTo(S, n) ==
    IF n = 0 THEN {<<>>}
    ELSE LET shorter == SeqsUpTo(S, n - 1)
         IN  shorter \cup {Append(s, b) : s \in {t \in shorter : Len(t) = n - 1}, b \in S}

\* bytes a command's stdout is built from: 'A', a 2-byte lead, two
\* continuation bytes, a 3-byte lead, a 4-byte lead, and a byte that is
\* never valid in UTF-8
OutBytes == {65, 195, 169, 130, 226, 240, 255}
Stdouts == SeqsUpTo(OutBytes, MaxOut)

\* bytes a command string is built from: 'l', ';' and NUL
CmdBytes == {108, 59, 0}
CmdStrings == SeqsUpTo(CmdBytes, MaxCmdLen)

HasNul(s) == \E k \in 1..Len(s) : s[k] = 0

----------------------------------------------------------------------------
(* String::from_utf8_lossy: valid UTF-8 is kept, every maximal invalid     *)
(* prefix of a sequence is replaced by U+FFFD (EF BF BD).                  *)

Replacement == <<239, 191, 189>>

IsCont(b) == b >= 128 /\ b <= 191

Utf8CharWidth(b) ==
    IF b < 128 THEN 1
    ELSE IF b >= 194 /\ b <= 223 THEN 2
    ELSE IF b >= 224 /\ b <= 239 THEN 3
    ELSE IF b >= 240 /\ b <= 244 THEN 4
    ELSE 0

\* the byte at position k (1-based), 0 past the end (safe_get)
SafeGet(s, k) == IF k <= Len(s) THEN s[k] ELSE 0

\* whether `second` may follow the lead byte `first` of a 3- or 4-byte sequence
SecondOk(first, second) ==
    CASE first = 224 -> second >= 160 /\ second <= 191
      [] first >= 225 /\ first <= 236 -> IsCont(second)
      [] first = 237 -> second >= 128 /\ second <= 159
      [] first >= 238 /\ first <= 239 -> IsCont(second)
      [] first = 240 -> second >= 144 /\ second <= 191
      [] first >= 241 /\ first <= 243 -> IsCont(second)
      [] first = 244 -> second >= 128 /\ second <= 143
      [] OTHER -> FALSE

\* Length and validity of the chunk starting at position k:
\* <<n, TRUE>> for a valid character of n bytes, <<n, FALSE>> for an invalid
\* chunk of n bytes (the lead byte and the continuation bytes accepted so far).
Chunk(s, k) ==
    LET b == s[k]
        w == Utf8CharWidth(b)
    IN  CASE w = 1 -> <<1, TRUE>>
          [] w = 2 -> IF IsCont(SafeGet(s, k + 1)) THEN <<2, TRUE>> ELSE <<1, FALSE>>
          [] w = 3 -> IF ~SecondOk(b, SafeGet(s, k + 1)) THEN <<1, FALSE>>
                      ELSE IF ~IsCont(SafeGet(s, k + 2)) THEN <<2, FALSE>>
                      ELSE <<3, TRUE>>
          [] w = 4 -> IF ~SecondOk(b, SafeGet(s, k + 1)) THEN <<1, FALSE>>
                      ELSE IF ~IsCont(SafeGet(s, k + 2)) THEN <<2, FALSE>>
                      ELSE IF ~IsCont(SafeGet(s, k + 3)) THEN <<3, FALSE>>
                      ELSE <<4, TRUE>>
          [] OTHER -> <<1, FALSE>>

RECURSIVE LossyFrom(_, _)
LossyFrom(s, k) ==
    IF k > Len(s) THEN <<>>
    ELSE LET c == Chunk(s, k)
         IN  (IF c[2] THEN SubSeq(s, k, k + c[1] - 1) ELSE Replacement)
             \o LossyFrom(s, k + c[1])

FromUtf8Lossy(s) == LossyFrom(s, 1)

----------------------------------------------------------------------------
(* Results and outcomes *)

NoRes == [kind |-> "none"]

Unit == [ok |-> TRUE, v |-> [unit |-> TRUE]]
Ok(v) == [ok |-> TRUE, v |-> v]
Err(e) == [ok |-> FALSE, err |-> e]

Running == [kind |-> "running"]
Returned(v) == [kind |-> "returned", value |-> v]
Panicked(msg) == [kind |-> "panicked", msg |-> msg]
\* the process was killed by a fault (SIGSEGV, allocator abort)
Faulted == [kind |-> "faulted"]

\* allocator calls and raw reads, as recorded in events
AllocEv(size) == [op |-> "alloc", size |-> size]
DeallocEv(size) == [op |-> "dealloc", size |-> size]
ReadEv == [op |-> "read"]

\* no offset written yet
EmptyMem == [k \in {} |-> 0]

Init ==
    /\ fn = "none"
    /\ pc = "idle"
    /\ arg = NoRes
    /\ opres = NoRes
    /\ outcome = Running
    /\ spawns = <<>>
    /\ printed = <<>>
    /\ ptr = "unset"
    /\ block = "none"
    /\ mem = EmptyMem
    /\ i = 0
    /\ events = <<>>


----------------------------------------------------------------------------
(* The environment *)

ExitCodes == {0, 1}

\* Command::new("sh").arg("-c").arg(cmd).output(): the spawn may fail
\* (no sh, no resources); it always fails when an argument holds a NUL byte.
\* When it succeeds the child runs to its end and its stdout is captured.
SpawnResults(cmd) ==
    {[kind |-> "spawn", ok |-> FALSE]}
    \cup (IF HasNul(cmd) THEN {}
          ELSE {[kind |-> "spawn", ok |-> TRUE, status |-> st, stdout |-> out] :
                    st \in ExitCodes, out \in Stdouts})

ShCommand(cmd) == [program |-> "sh", args |-> <<"-c", cmd>>]

\* fs::read_to_string(path)
FileContents == {"", "root:x:0:0:root:/root:/bin/bash"}
IoErrors == {"NotFound", "PermissionDenied", "InvalidData"}
ReadResults ==
    {[kind |-> "read", ok |-> TRUE, contents |-> c] : c \in FileContents}
    \cup {[kind |-> "read", ok |-> FALSE, err |-> e] : e \in IoErrors}

Paths == {"../../../etc/passwd", "notes.txt"}

----------------------------------------------------------------------------
(* web/server.rs: execute_command(params)                                  *)

Keys == {"command", "cmd"}
\* the value a key other than "command" carries
OtherValue == <<108>>

\* HashMap<String, String> bodies: any subset of the keys
ParamMaps ==
    UNION {[D -> CmdStrings] : D \in SUBSET Keys}

Params == {m \in ParamMaps : \A k \in DOMAIN m : k # "command" => m[k] = OtherValue}

\* "Output: "
OutputPrefix == <<79, 117, 116, 112, 117, 116, 58, 32>>

\* a variant that copies stdout without decoding it
FormatOutputRaw(stdout) == OutputPrefix \o stdout

\* format!("Output: {}", String::from_utf8_lossy(&output.stdout))
FormatOutput(stdout) == OutputPrefix \o FromUtf8Lossy(stdout)

\* warp::reply::json(&string): a reply whose JSON value is the string
JsonReply(str) == [json |-> str]

NotFound == Err("not_found")

\* params.get("command")
GetCommand(m) == IF "command" \in DOMAIN m THEN Ok(m["command"]) ELSE Err("None")

ExecGet ==
    /\ fn = "execute_command" /\ pc = "exec_get"
    /\ IF GetCommand(arg).ok
       THEN pc' = "exec_spawn" /\ outcome' = outcome
       ELSE pc' = "done" /\ outcome' = Returned(NotFound)
    /\ UNCHANGED <<fn, arg, opres, spawns, printed, ptr, block, mem, i, events>>

ExecSpawn ==
    /\ fn = "execute_command" /\ pc = "exec_spawn"
    /\ LET cmd == GetCommand(arg).v
       IN  /\ spawns' = Append(spawns, ShCommand(cmd))
           /\ \E r \in SpawnResults(cmd) :
                /\ opres' = r
                /\ IF r.ok
                   THEN pc' = "exec_reply" /\ outcome' = outcome
                   ELSE pc' = "done" /\ outcome' = Returned(NotFound)
    /\ UNCHANGED <<fn, arg, printed, ptr, block, mem, i, events>>

ExecReply ==
    /\ fn = "execute_command" /\ pc = "exec_reply"
    /\ outcome' = Returned(Ok(JsonReply(FormatOutput(opres.stdout))))
    /\ pc' = "done"
    /\ UNCHANGED <<fn, arg, opres, spawns, printed, ptr, block, mem, i, events>>

----------------------------------------------------------------------------
(* main.rs: command_injection_vuln(user_input)                             *)

CivSpawn ==
    /\ fn = "command_injection_vuln" /\ pc = "civ_spawn"
    /\ spawns' = Append(spawns, ShCommand(arg))
    /\ \E r \in SpawnResults(arg) :
         /\ opres' = r
         /\ IF r.ok
            THEN pc' = "civ_print" /\ outcome' = outcome
            ELSE pc' = "done" /\ outcome' = Panicked("Failed to execute command")
    /\ UNCHANGED <<fn, arg, printed, ptr, block, mem, i, events>>

CivPrint ==
    /\ fn = "command_injection_vuln" /\ pc = "civ_print"
    /\ printed' = Append(printed, [text |-> "Command output: ",
                                   v |-> FromUtf8Lossy(opres.stdout)])
    /\ outcome' = Returned(Unit)
    /\ pc' = "done"
    /\ UNCHANGED <<fn, arg, opres, spawns, ptr, block, mem, i, events>>

----------------------------------------------------------------------------
(* main.rs: path_traversal_vuln(file_path)                                 *)

PtvRead ==
    /\ fn = "path_traversal_vuln" /\ pc = "ptv_read"
    /\ \E r \in ReadResults : opres' = r
    /\ pc' = "ptv_match"
    /\ UNCHANGED <<fn, arg, outcome, spawns, printed, ptr, block, mem, i, events>>

\* the Ok arm of the match
PtvOkArm ==
    /\ printed' = Append(printed, [text |-> "File contents: ", v |-> opres.contents])
    /\ outcome' = Returned(Unit)

\* a variant of the Err arm that panics, as .expect() would
PtvErrArmPanics ==
    /\ printed' = printed
    /\ outcome' = Panicked("Error reading file")

\* the Err arm of the match
PtvErrArm ==
    /\ printed' = Append(printed, [text |-> "Error reading file: ", v |-> opres.err])
    /\ outcome' = Returned(Unit)

PtvMatch ==
    /\ fn = "path_traversal_vuln" /\ pc = "ptv_match"
    /\ IF opres.ok THEN PtvOkArm ELSE PtvErrArm
    /\ pc' = "done"
    /\ UNCHANGED <<fn, arg, opres, spawns, ptr, block, mem, i, events>>

----------------------------------------------------------------------------
(* examples/web_vulns.rs: vulnerable_deserialize(data)                     *)

UserDataFields == {"username", "password", "api_key"}

\* A JSON text, by what the parser sees of it: whether it is well-formed
\* JSON holding an object, and which of UserData's fields the object carries.
Docs == [wellformed : BOOLEAN, fields : SUBSET UserDataFields]

FieldValue(f) == "<" \o f \o ">"

\* serde_json::from_str::<UserData>(data): every field of the derived
\* struct is required
FromStr(doc) ==
    IF doc.wellformed /\ doc.fields = UserDataFields
    THEN [kind |-> "parse", ok |-> TRUE, user_data |-> [f \in UserDataFields |-> FieldValue(f)]]
    ELSE [kind |-> "parse", ok |-> FALSE,
          err |-> IF doc.wellformed THEN "missing field" ELSE "syntax"]

VdParse ==
    /\ fn = "vulnerable_deserialize" /\ pc = "vd_parse"
    /\ opres' = FromStr(arg)
    /\ IF opres'.ok
       THEN pc' = "vd_print" /\ outcome' = outcome
       ELSE pc' = "done" /\ outcome' = Returned(Err(opres'.err))
    /\ UNCHANGED <<fn, arg, spawns, printed, ptr, block, mem, i, events>>

VdPrint ==
    /\ fn = "vulnerable_deserialize" /\ pc = "vd_print"
    /\ printed' = Append(printed, [text |-> "Deserialized user: ",
                                   v |-> opres.user_data["username"]])
    /\ outcome' = Returned(Ok(opres.user_data))
    /\ pc' = "done"
    /\ UNCHANGED <<fn, arg, opres, spawns, ptr, block, mem, i, events>>

----------------------------------------------------------------------------
(* examples/web_vulns.rs: memory_corruption_example(size)                  *)

Sizes == 0..MaxSize

\* `i as u8`
AsU8(n) == n % U8Mod

\* a variant whose slice covers exactly the block
SliceLenInBounds(size) == size

\* slice.len(): from_raw_parts_mut(ptr, size * 2)
SliceLen(size) == size * SliceFactor

\* offset k of the slice lies outside the block of `size` bytes
OutOfBounds(size, k) == k >= size

\* std::alloc::alloc(layout): a fresh live block, or null
McAlloc ==
    /\ fn = "memory_corruption_example" /\ pc = "mc_alloc"
    /\ events' = Append(events, AllocEv(arg))
    /\ \/ ptr' = "block" /\ block' = "live"
       \/ ptr' = "null" /\ block' = block
    /\ pc' = "mc_check"
    /\ UNCHANGED <<fn, arg, opres, outcome, spawns, printed, mem, i>>

\* if !ptr.is_null() { ... }
McCheck ==
    /\ fn = "memory_corruption_example" /\ pc = "mc_check"
    /\ IF ptr # "null"
       THEN pc' = "mc_loop" /\ outcome' = outcome
       ELSE pc' = "done" /\ outcome' = Returned(Unit)
    /\ i' = 0
    /\ UNCHANGED <<fn, arg, opres, spawns, printed, ptr, block, mem, events>>

\* slice[i] = i as u8, the write landing in memory
McWrite ==
    /\ fn = "memory_corruption_example" /\ pc = "mc_loop"
    /\ i < SliceLen(arg)
    /\ mem' = [k \in 0..i |-> IF k = i THEN AsU8(i) ELSE mem[k]]
    /\ i' = i + 1
    /\ UNCHANGED <<fn, pc, arg, opres, outcome, spawns, printed, ptr, block, events>>

\* a write outside the block is undefined: it may also fault
McWriteFault ==
    /\ fn = "memory_corruption_example" /\ pc = "mc_loop"
    /\ i < SliceLen(arg)
    /\ OutOfBounds(arg, i)
    /\ outcome' = Faulted
    /\ pc' = "done"
    /\ UNCHANGED <<fn, arg, opres, spawns, printed, ptr, block, mem, i, events>>

\* some write has landed outside the block
Corrupted == \E k \in DOMAIN mem : OutOfBounds(arg, k)

\* std::alloc::dealloc(ptr, layout), after the loop
McDealloc ==
    /\ fn = "memory_corruption_example" /\ pc = "mc_loop"
    /\ ~(i < SliceLen(arg))
    /\ events' = Append(events, DeallocEv(arg))
    /\ block' = "freed"
    /\ outcome' = Returned(Unit)
    /\ pc' = "done"
    /\ UNCHANGED <<fn, arg, opres, spawns, printed, ptr, mem, i>>

\* with the heap overwritten, the allocator may abort inside dealloc
McDeallocFault ==
    /\ fn = "memory_corruption_example" /\ pc = "mc_loop"
    /\ ~(i < SliceLen(arg))
    /\ Corrupted
    /\ events' = Append(events, DeallocEv(arg))
    /\ outcome' = Faulted
    /\ pc' = "done"
    /\ UNCHANGED <<fn, arg, opres, spawns, printed, ptr, block, mem, i>>

----------------------------------------------------------------------------
(* main.rs: use_after_free_example()                                       *)

Bytes == 0..(U8Mod - 1)

\* std::alloc::alloc(layout) of UafSize bytes; the result is not checked
UafAlloc ==
    /\ fn = "use_after_free_example" /\ pc = "uaf_alloc"
    /\ events' = Append(events, AllocEv(UafSize))
    /\ \/ ptr' = "block" /\ block' = "live"
       \/ ptr' = "null" /\ block' = block
    /\ pc' = "uaf_dealloc"
    /\ UNCHANGED <<fn, arg, opres, outcome, spawns, printed, mem, i>>

\* a variant that leaves the block allocated
UafDeallocSkipped ==
    /\ fn = "use_after_free_example" /\ pc = "uaf_dealloc"
    /\ pc' = "uaf_read"
    /\ UNCHANGED <<fn, arg, opres, outcome, spawns, printed, ptr, block, mem, i, events>>

\* std::alloc::dealloc(ptr, layout)
UafDealloc ==
    /\ fn = "use_after_free_example" /\ pc = "uaf_dealloc"
    /\ events' = Append(events, DeallocEv(UafSize))
    /\ block' = IF ptr = "block" THEN "freed" ELSE block
    /\ pc' = "uaf_read"
    /\ UNCHANGED <<fn, arg, opres, outcome, spawns, printed, ptr, mem, i>>

\* dealloc of a null pointer is undefined: it may also fault
UafDeallocFault ==
    /\ fn = "use_after_free_example" /\ pc = "uaf_dealloc"
    /\ ptr = "null"
    /\ events' = Append(events, DeallocEv(UafSize))
    /\ outcome' = Faulted
    /\ pc' = "done"
    /\ UNCHANGED <<fn, arg, opres, spawns, printed, ptr, block, mem, i>>

\* ptr::read(ptr): the pointer is dangling or null, so any byte may come back
UafRead ==
    /\ fn = "use_after_free_example" /\ pc = "uaf_read"
    /\ events' = Append(events, ReadEv)
    /\ \E value \in Bytes : opres' = [kind |-> "value", value |-> value]
    /\ pc' = "uaf_print"
    /\ UNCHANGED <<fn, arg, outcome, spawns, printed, ptr, block, mem, i>>

\* ... or the read faults
UafReadFault ==
    /\ fn = "use_after_free_example" /\ pc = "uaf_read"
    /\ events' = Append(events, ReadEv)
    /\ outcome' = Faulted
    /\ pc' = "done"
    /\ UNCHANGED <<fn, arg, opres, spawns, printed, ptr, block, mem, i>>

UafPrint ==
    /\ fn = "use_after_free_example" /\ pc = "uaf_print"
    /\ printed' = Append(printed, [text |-> "Use after free: ", v |-> opres.value])
    /\ outcome' = Returned(Unit)
    /\ pc' = "done"
    /\ UNCHANGED <<fn, arg, opres, spawns, ptr, block, mem, i, events>>

----------------------------------------------------------------------------
(* Calls *)

\* the functions of the application, the arguments each is called with, and
\* the position each starts at
Functions ==
    {"execute_command", "command_injection_vuln", "path_traversal_vuln",
     "vulnerable_deserialize", "memory_corruption_example", "use_after_free_example"}

Args(f) ==
    CASE f = "execute_command" -> Params
      [] f = "command_injection_vuln" -> CmdStrings
      [] f = "path_traversal_vuln" -> Paths
      [] f = "vulnerable_deserialize" -> Docs
      [] f = "memory_corruption_example" -> Sizes
      [] f = "use_after_free_example" -> {NoRes}

Entry(f) ==
    CASE f = "execute_command" -> "exec_get"
      [] f = "command_injection_vuln" -> "civ_spawn"
      [] f = "path_traversal_vuln" -> "ptv_read"
      [] f = "vulnerable_deserialize" -> "vd_parse"
      [] f = "memory_corruption_example" -> "mc_alloc"
      [] f = "use_after_free_example" -> "uaf_alloc"

Call ==
    /\ pc = "idle"
    /\ \E f \in Functions : \E a \in Args(f) :
         /\ fn' = f
         /\ arg' = a
         /\ pc' = Entry(f)
    /\ UNCHANGED <<opres, outcome, spawns, printed, ptr, block, mem, i, events>>

Next ==
    \/ Call
    \/ ExecGet \/ ExecSpawn \/ ExecReply
    \/ CivSpawn \/ CivPrint
    \/ PtvRead \/ PtvMatch
    \/ VdParse \/ VdPrint
    \/ McAlloc \/ McCheck \/ McWrite \/ McWriteFault \/ McDealloc \/ McDeallocFault
    \/ UafAlloc \/ UafDealloc \/ UafDeallocFault \/ UafRead \/ UafReadFault \/ UafPrint

Spec == Init /\ [][Next]_vars

----------------------------------------------------------------------------
(* Properties *)

\* the call ended by returning a success value (unit or Ok)
NormalReturn == outcome.kind = "returned" /\ outcome.value.ok

\* the underlying spawn, read or parse of the call has failed
OpFailed == opres.kind \in {"spawn", "read", "parse"} /\ ~opres.ok

\* the allocation of memory_corruption_example has failed
AllocFailed == fn = "memory_corruption_example" /\ ptr = "null"

\* C7 as stated: no function of the source turns the failure of an
\* underlying operation (spawn, read, parse, allocation) into a normal
\* return; in particular path_traversal_vuln, command_injection_vuln and
\* execute_command never complete normally after the failure.
C7_NoFailureHandling == (OpFailed \/ AllocFailed) => ~NormalReturn

\* C7 as amended: a failed spawn makes command_injection_vuln panic and
\* execute_command return the not-found rejection, a failed parse makes
\* vulnerable_deserialize return Err; but path_traversal_vuln handles a
\* failed read (it prints the error and returns normally, never panicking),
\* and memory_corruption_example returns normally, with no write and no
\* deallocation, when the allocation fails.
C7_FailureHandling ==
    /\ (fn = "command_injection_vuln" /\ OpFailed)
          => outcome = Panicked("Failed to execute command") /\ printed = <<>>
    /\ (fn = "execute_command" /\ OpFailed) => outcome = Returned(NotFound)
    /\ (fn = "vulnerable_deserialize" /\ OpFailed)
          => outcome = Returned(Err(opres.err)) /\ printed = <<>>
    /\ (fn = "path_traversal_vuln" /\ OpFailed)
          => /\ outcome.kind # "panicked"
             /\ pc = "done" => /\ outcome = Returned(Unit)
                               /\ printed = <<[text |-> "Error reading file: ", v |-> opres.err]>>
    /\ (AllocFailed /\ pc = "done")
          => outcome = Returned(Unit) /\ mem = EmptyMem /\ events = <<AllocEv(arg)>>

\* path_traversal_vuln has returned after its read failed
C7_Witness ==
    /\ fn = "path_traversal_vuln" /\ pc = "done"
    /\ OpFailed /\ opres.err = "NotFound"
    /\ NormalReturn

----------------------------------------------------------------------------
(* Well-formed UTF-8, by the table of well-formed byte sequences of the    *)
(* Unicode standard; used to state what the reply holds.                   *)

InRange(b, lo, hi) == b >= lo /\ b <= hi

\* length of the well-formed sequence starting at position k, 0 if none
WellFormedAt(s, k) ==
    LET b1 == SafeGet(s, k)
        b2 == SafeGet(s, k + 1)
        b3 == SafeGet(s, k + 2)
        b4 == SafeGet(s, k + 3)
        c2 == InRange(b2, 128, 191)
        c3 == InRange(b3, 128, 191)
        c4 == InRange(b4, 128, 191)
    IN  IF b1 < 128 THEN 1
        ELSE IF InRange(b1, 194, 223) /\ c2 THEN 2
        ELSE IF \/ b1 = 224 /\ InRange(b2, 160, 191) /\ c3
                \/ InRange(b1, 225, 236) /\ c2 /\ c3
                \/ b1 = 237 /\ InRange(b2, 128, 159) /\ c3
                \/ InRange(b1, 238, 239) /\ c2 /\ c3 THEN 3
        ELSE IF \/ b1 = 240 /\ InRange(b2, 144, 191) /\ c3 /\ c4
                \/ InRange(b1, 241, 243) /\ c2 /\ c3 /\ c4
                \/ b1 = 244 /\ InRange(b2, 128, 143) /\ c3 /\ c4 THEN 4
        ELSE 0

RECURSIVE WellFormedFrom(_, _)
WellFormedFrom(s, k) ==
    \/ k > Len(s)
    \/ /\ WellFormedAt(s, k) > 0
       /\ k + WellFormedAt(s, k) - 1 <= Len(s)
       /\ WellFormedFrom(s, k + WellFormedAt(s, k))

WellFormedUtf8(s) == WellFormedFrom(s, 1)

\* s without its first n elements
Drop(s, n) == SubSeq(s, n + 1, Len(s))

\* t occurs in s as a contiguous run
Occurs(t, s) == \E k \in 1..(Len(s) - Len(t) + 1) : SubSeq(s, k, k + Len(t) - 1) = t

----------------------------------------------------------------------------
(* execute_command *)

HasCommand == "command" \in DOMAIN arg

SpawnOk == opres.kind = "spawn" /\ opres.ok

\* what C8 says of requests and spawns: without the key "command" the
\* handler rejects with not-found and requests no spawn; with it, exactly one
\* `sh -c <value>` is requested, the value unmodified, and a failed spawn is
\* rejected with not-found
C8_SpawnRules ==
    fn = "execute_command" =>
        /\ ~HasCommand => /\ spawns = <<>>
                          /\ pc = "done" => outcome = Returned(NotFound)
        /\ (HasCommand /\ pc \in {"exec_reply", "done"})
              => spawns = <<[program |-> "sh", args |-> <<"-c", arg["command"]>>]>>
        /\ Len(spawns) <= 1
        /\ OpFailed => outcome = Returned(NotFound)
        /\ pc = "done" => (NormalReturn <=> SpawnOk)

\* the string of the JSON reply of a completed, successful call
ReplyText == outcome.value.v.json

Replied == fn = "execute_command" /\ pc = "done" /\ SpawnOk

\* C8 as stated: ... and otherwise the reply is "Output: " followed by the
\* command's stdout, whatever the exit status.
C8_ReplyIsStdout ==
    /\ C8_SpawnRules
    /\ Replied => ReplyText = OutputPrefix \o opres.stdout

\* C8 as amended: ... and otherwise the reply is the JSON string "Output: "
\* followed by the command's stdout decoded lossily as UTF-8, whatever the
\* exit status: stdout itself when it is well-formed UTF-8, and otherwise a
\* well-formed string, different from stdout, in which U+FFFD stands for the
\* ill-formed bytes.
C8_ReplyIsLossyStdout ==
    /\ C8_SpawnRules
    /\ Replied =>
        /\ outcome = Returned(Ok([json |-> ReplyText]))
        /\ SubSeq(ReplyText, 1, Len(OutputPrefix)) = OutputPrefix
        /\ LET rest == Drop(ReplyText, Len(OutputPrefix))
           IN  /\ WellFormedUtf8(rest)
               /\ WellFormedUtf8(opres.stdout) => rest = opres.stdout
               /\ ~WellFormedUtf8(opres.stdout)
                     => /\ rest # opres.stdout
                        /\ Occurs(Replacement, rest)
                        /\ Len(rest) >= Len(opres.stdout)

\* a command that exited with status 1 and wrote ill-formed UTF-8 has been
\* answered
C8_Witness ==
    /\ Replied /\ NormalReturn
    /\ opres.status = 1
    /\ opres.stdout = <<65, 255>>
    /\ spawns = <<ShCommand(<<59>>)>>
    /\ ReplyText = OutputPrefix \o <<65>> \o Replacement

----------------------------------------------------------------------------
(* memory_corruption_example *)

McCalled == fn = "memory_corruption_example" /\ arg >= 1

Count(op) == Cardinality({k \in 1..Len(events) : events[k].op = op})

\* every offset of 0 .. 2*size-1 holds the byte (offset mod 256)
AllWritten ==
    /\ DOMAIN mem = 0..(2 * arg - 1)
    /\ \A k \in DOMAIN mem : mem[k] = k % 256

\* C9 as stated: when the allocation returns a block, the function writes
\* (i mod 256) at every offset i of 0 .. 2*size-1, the offsets from size on
\* out of bounds, and deallocates the block exactly once, after all writes;
\* when the allocation returns null it neither writes nor deallocates.
C9_WritesAllThenFrees ==
    (McCalled /\ pc = "done") =>
        IF ptr = "null"
        THEN mem = EmptyMem /\ Count("dealloc") = 0
        ELSE AllWritten /\ events = <<AllocEv(arg), DeallocEv(arg)>> /\ block = "freed"

\* C9 as amended: the writes are issued in increasing order of offset, each
\* storing (i mod 256); the offsets below size are written in bounds and
\* always land; a write at an offset from size on is out of bounds and
\* undefined: it lands or the process faults, and the deallocation that
\* follows overwritten memory may fault too.  In every execution that
\* returns, all of 0 .. 2*size-1 has been written and the block has been
\* deallocated exactly once, after all writes; no deallocation is requested
\* before the last write; when the allocation returns null the function
\* returns with no write and no deallocation.
C9_WritesAllThenFreesUnlessFault ==
    McCalled =>
        /\ \E n \in 0..(2 * arg) : DOMAIN mem = 0..(n - 1)
        /\ \A k \in DOMAIN mem : mem[k] = k % 256
        /\ Count("dealloc") <= 1 /\ Count("alloc") <= 1
        /\ Count("dealloc") = 1 => AllWritten /\ events = <<AllocEv(arg), DeallocEv(arg)>>
        /\ ptr = "null" => mem = EmptyMem /\ Count("dealloc") = 0 /\ block = "none"
        /\ (ptr = "null" /\ pc = "done") => outcome = Returned(Unit)
        /\ outcome = Faulted => /\ \A k \in 0..(arg - 1) : k \in DOMAIN mem
                                /\ block = "live"
        /\ (outcome.kind = "returned" /\ ptr = "block")
              => /\ AllWritten
                 /\ \E k \in DOMAIN mem : k >= arg
                 /\ events = <<AllocEv(arg), DeallocEv(arg)>>
                 /\ block = "freed"

\* a call with a size large enough for the cast to wrap has returned
C9_Witness ==
    /\ McCalled /\ pc = "done" /\ arg = 129
    /\ outcome = Returned(Unit) /\ block = "freed"
    /\ mem[257] = 1

----------------------------------------------------------------------------
(* use_after_free_example *)

IsPrefix(s, t) == Len(s) <= Len(t) /\ SubSeq(t, 1, Len(s)) = s

UafOrder == <<[op |-> "alloc", size |-> 1024], [op |-> "dealloc", size |-> 1024], [op |-> "read"]>>

ReadIssued == \E k \in 1..Len(events) : events[k].op = "read"

\* C10 as stated: in every execution the read goes through the pointer of
\* a block that is in the freed state.
C10_ReadTargetsFreedBlock ==
    (fn = "use_after_free_example" /\ ReadIssued) => (ptr = "block" /\ block = "freed")

\* C10 as amended: the calls are issued in the fixed order allocate (1024
\* bytes), deallocate, read through the same pointer, with no null check and
\* no other allocation in between; in every execution in which the
\* allocation returned a block, the read targets that block in the freed
\* state; when the allocation returned null there is no block, and the
\* deallocation and the read are applied to the null pointer.
C10_ReadAfterFree ==
    fn = "use_after_free_example" =>
        /\ IsPrefix(events, UafOrder)
        /\ (ReadIssued /\ ptr = "block") => block = "freed"
        /\ ptr = "null" => block = "none"
        /\ (pc = "uaf_read" /\ ptr = "block") => block = "freed"
        /\ pc \in {"uaf_print", "done"} /\ outcome.kind # "faulted" => events = UafOrder
        /\ outcome.kind = "returned" => events = UafOrder

\* the freed block has been read and the value printed
C10_Witness ==
    /\ fn = "use_after_free_example" /\ pc = "done"
    /\ ptr = "block" /\ block = "freed"
    /\ events = UafOrder
    /\ outcome = Returned(Unit)
    /\ Len(printed) = 1

============================================================================
